---- MODULE Spec2Model ----
(***************************************************************************)
(* The generation request lifecycle of the HyperRender page: the App       *)
(* component's state (src/types.ts) and GeminiService                      *)
(* (src/unnamed/part_000).  The two async handlers, handleGenerate and     *)
(* handleKeySelection, are split at their suspension points (await).       *)
(* Optional values (null / undefined) are sequences of length 0 or 1.      *)
(* Strings that the code inspects (prompt, error messages) are sequences   *)
(* of tokens, so that trim() and includes() are computed, not assumed.     *)
(***************************************************************************)
EXTENDS Integers, Sequences, FiniteSets, TLC

\* ---------------------------------------------------------------- bounds
MaxAttempts == 2
MaxPendingSelections == 1

\* ------------------------------------------------------------- constants
Null == <<>>
Some(x) == <<x>>

FLASH == "gemini-2.5-flash-image"
PRO == "gemini-3-pro-image-preview"
ModelType == {FLASH, PRO}

SQUARE == "1:1"
LANDSCAPE == "16:9"
AspectRatio == {SQUARE, LANDSCAPE}

SP == " "
\* What the user can type: empty, whitespace only, text, padded text
Prompts == {<<>>, <<SP, SP>>, <<"a">>, <<SP, "a", SP>>}
DEFAULT_PROMPT == <<"a">>

API_KEY_REQUIRED == <<"API_KEY_REQUIRED">>
API_KEY_INVALID == <<"API_KEY_INVALID">>
NO_IMAGE_DATA == <<"No image data found in response">>
ENTITY_NOT_FOUND == <<"Requested entity", "was not found">>
UNEXPECTED_ERROR == <<"An unexpected error occurred while generating the image.">>
NO_AISTUDIO == <<"AI Studio environment not detected.">>
KEY_SELECTION_FAILED == <<"Failed to select API key. Please try again.">>
TYPE_ERROR == <<"Cannot read properties of undefined">>

\* Messages of the failures the remote call can raise; Null is a thrown
\* value that carries no message, <<>> inside Some is the empty string.
ProviderMessages ==
  { Some(ENTITY_NOT_FOUND),
    Some(<<"404:">> \o ENTITY_NOT_FOUND),
    Some(<<"was not found">>),
    Some(<<"quota exceeded">>),
    Some(<<>>),
    Null }

Part(hasInline, data, mimeType) ==
  [hasInline |-> hasInline, data |-> data, mimeType |-> mimeType]

TextPart == Part(FALSE, "", "")

\* Responses of the remote call: candidates is Null (undefined), an empty
\* array, or one candidate whose parts are Null or a list of parts.
Responses ==
  { [candidates |-> Null],
    [candidates |-> Some(<<>>)],
    [candidates |-> Some(<<[parts |-> Null]>>)],
    [candidates |-> Some(<<[parts |-> Some(<<>>)]>>)],
    [candidates |-> Some(<<[parts |-> Some(<<TextPart>>)]>>)],
    [candidates |-> Some(<<[parts |-> Some(<<Part(TRUE, "", "image/jpeg")>>)]>>)],
    [candidates |-> Some(<<[parts |-> Some(<<Part(TRUE, "B64", "image/jpeg")>>)]>>)],
    [candidates |-> Some(<<[parts |-> Some(<<TextPart, Part(TRUE, "B64", "")>>)]>>)] }

\* ------------------------------------------------------------ pure code
RECURSIVE TrimStart(_)
TrimStart(s) ==
  IF s # <<>> /\ Head(s) = SP THEN TrimStart(Tail(s)) ELSE s

RECURSIVE TrimEnd(_)
TrimEnd(s) ==
  IF s # <<>> /\ s[Len(s)] = SP THEN TrimEnd(SubSeq(s, 1, Len(s) - 1)) ELSE s

Trim(s) == TrimEnd(TrimStart(s))

\* String.prototype.includes on token sequences
Includes(s, sub) ==
  \E i \in 0..(Len(s) - Len(sub)) : SubSeq(s, i + 1, i + Len(sub)) = sub

\* JavaScript truthiness of an optional string
Truthy(m) == m # Null /\ m[1] # <<>>

OrElse(m, fallback) == IF Truthy(m) THEN m[1] ELSE fallback

\* Mutant of BlankPrompt: the prompt is tested without being trimmed
BlankPromptUntrimmed(p) == p = <<>>

\* if (!prompt.trim()) return;
BlankPrompt(p) == Trim(p) = <<>>

\* What an awaited call did: returned, or threw an error whose message is
\* Null (no message) or Some(tokens)
NoThrow == [threw |-> FALSE, message |-> Null]
Throw(m) == [threw |-> TRUE, message |-> m]

\* Mutant of checkApiKey: the oracle's answer is ignored
checkApiKeySkipped(m, studio, key) == NoThrow

\* GeminiService.checkApiKey, given the oracle's answer
checkApiKey(m, studio, key) ==
  IF m = PRO
  THEN IF studio
       THEN IF ~key THEN Throw(Some(API_KEY_REQUIRED)) ELSE NoThrow
       ELSE NoThrow
  ELSE NoThrow

DataUrl(mimeType, data) == <<"data:", mimeType, ";base64,", data>>

RECURSIVE FirstImage(_)
FirstImage(parts) ==
  IF parts = <<>> THEN Null
  ELSE IF Head(parts).hasInline /\ Head(parts).data # ""
       THEN Some(DataUrl(IF Head(parts).mimeType # "" THEN Head(parts).mimeType
                         ELSE "image/png",
                         Head(parts).data))
       ELSE FirstImage(Tail(parts))

\* The try block of generateImage after the response arrived
ScanResponse(response) ==
  IF response.candidates = Null
  THEN [url |-> Null, thrown |-> Throw(Some(NO_IMAGE_DATA))]
  ELSE IF response.candidates[1] = <<>>
  THEN [url |-> Null, thrown |-> Throw(Some(TYPE_ERROR))]
  ELSE IF response.candidates[1][1].parts = Null
  THEN [url |-> Null, thrown |-> Throw(Some(NO_IMAGE_DATA))]
  ELSE IF FirstImage(response.candidates[1][1].parts[1]) # Null
  THEN [url |-> FirstImage(response.candidates[1][1].parts[1]), thrown |-> NoThrow]
  ELSE [url |-> Null, thrown |-> Throw(Some(NO_IMAGE_DATA))]

\* Mutant of Rethrow: the tier is not tested
RethrowAnyTier(message, m) ==
  IF message # Null /\ Includes(message[1], ENTITY_NOT_FOUND)
  THEN Some(API_KEY_INVALID)
  ELSE message

\* The catch block of generateImage: the message of the error it rethrows
Rethrow(message, m) ==
  IF message # Null /\ Includes(message[1], ENTITY_NOT_FOUND) /\ m = PRO
  THEN Some(API_KEY_INVALID)
  ELSE message

\* generateImage from the remote call's settlement on: settled is
\* [ok, response, message]; the result is [url, caught, thrown], caught being
\* what entered the catch block
AfterCall(settled, m) ==
  LET inner == IF settled.ok THEN ScanResponse(settled.response)
               ELSE [url |-> Null, thrown |-> Throw(settled.message)]
  IN [url |-> inner.url,
      caught |-> inner.thrown,
      thrown |-> IF inner.thrown.threw
                 THEN Throw(Rethrow(inner.thrown.message, m))
                 ELSE NoThrow]

\* Mutant of ButtonDisabled: isLoading does not disable the button
ButtonIgnoresLoading(disabled, loading) == disabled

\* <button disabled={disabled || isLoading}>
ButtonDisabled(disabled, loading) == disabled \/ loading

\* --------------------------------------------- App state and its setters
\* st is the record [isLoading, error, currentImage, keySelectionNeeded]

\* Mutant of Begin: the previous error is not cleared
BeginKeepsError(st) ==
  [st EXCEPT !.isLoading = TRUE, !.keySelectionNeeded = FALSE]

\* handleGenerate, before the await
Begin(st) ==
  [st EXCEPT !.isLoading = TRUE, !.error = Null, !.keySelectionNeeded = FALSE]

\* handleGenerate, the try block after the await
Succeed(st, newImage) == [st EXCEPT !.currentImage = Some(newImage)]

\* Mutant of Catch: a failure also drops the displayed image
CatchDropsImage(st, message) ==
  IF message = Some(API_KEY_REQUIRED) \/ message = Some(API_KEY_INVALID)
  THEN [st EXCEPT !.keySelectionNeeded = TRUE, !.currentImage = Null]
  ELSE [st EXCEPT !.error = Some(OrElse(message, UNEXPECTED_ERROR)),
                  !.currentImage = Null]

\* handleGenerate, the catch block
Catch(st, message) ==
  IF message = Some(API_KEY_REQUIRED) \/ message = Some(API_KEY_INVALID)
  THEN [st EXCEPT !.keySelectionNeeded = TRUE]
  ELSE [st EXCEPT !.error = Some(OrElse(message, UNEXPECTED_ERROR))]

\* Mutant of Finally: isLoading is not reset
FinallyMissing(st) == st

\* handleGenerate, the finally block
Finally(st) == [st EXCEPT !.isLoading = FALSE]

\* Mutant of KeySelected: generation is retried at once
KeySelectedRetries(st) ==
  [st EXCEPT !.keySelectionNeeded = FALSE, !.isLoading = TRUE]

\* handleKeySelection after openSelectKey resolved
KeySelected(st) == [st EXCEPT !.keySelectionNeeded = FALSE]

\* handleKeySelection without window.aistudio
NoStudio(st) == [st EXCEPT !.error = Some(NO_AISTUDIO)]

\* Mutant of KeyFailed: the failure also clears keySelectionNeeded
KeyFailedClears(st) ==
  [st EXCEPT !.error = Some(KEY_SELECTION_FAILED), !.keySelectionNeeded = FALSE]

\* handleKeySelection, the catch block
KeyFailed(st) == [st EXCEPT !.error = Some(KEY_SELECTION_FAILED)]

\* ----------------------------------------------------------------- state
VARIABLES
  prompt, model, aspectRatio,       \* useState: the form inputs
  isLoading, error, currentImage,   \* useState: the attempt's display state
  keySelectionNeeded,
  aistudio,                         \* window.aistudio is present
  hasKey,                           \* a credential was selected in the host's
                                    \* selector: what hasSelectedApiKey() resolves to
  gens,                             \* handleGenerate calls suspended at an await
  selecting,                        \* handleKeySelection calls awaiting openSelectKey
  attempts,                         \* attempts started so far
  lastOp,                           \* history: the step taken last
  done                              \* history: the attempt that settled last

app == <<isLoading, error, currentImage, keySelectionNeeded>>
form == <<prompt, model, aspectRatio>>
host == <<aistudio, hasKey>>
vars == <<prompt, model, aspectRatio, isLoading, error, currentImage,
          keySelectionNeeded, aistudio, hasKey, gens, selecting, attempts,
          lastOp, done>>

State ==
  [isLoading |-> isLoading, error |-> error, currentImage |-> currentImage,
   keySelectionNeeded |-> keySelectionNeeded]

Render(st) ==
  /\ isLoading' = st.isLoading
  /\ error' = st.error
  /\ currentImage' = st.currentImage
  /\ keySelectionNeeded' = st.keySelectionNeeded

\* The record of a settled attempt: whether the remote call was made and
\* resolved, what generateImage's catch block caught, what generateImage threw
Settled(g, called, ok, caught, thrown) ==
  [id |-> g.id, model |-> g.model, hadKey |-> g.hadKey, called |-> called,
   ok |-> ok, caught |-> caught, thrown |-> thrown]

Init ==
  /\ prompt = DEFAULT_PROMPT
  /\ model = FLASH
  /\ aspectRatio = SQUARE
  /\ isLoading = FALSE
  /\ error = Null
  /\ currentImage = Null
  /\ keySelectionNeeded = FALSE
  /\ aistudio \in BOOLEAN
  /\ hasKey \in (IF aistudio THEN BOOLEAN ELSE {FALSE})
  /\ gens = {}
  /\ selecting = 0
  /\ attempts = 0
  /\ lastOp = "mount"
  /\ done = [id |-> 0, model |-> FLASH, hadKey |-> FALSE, called |-> FALSE,
             ok |-> FALSE, caught |-> NoThrow, thrown |-> NoThrow]

\* ---------------------------------------------------------------- actions
\* <textarea onChange={(e) => setPrompt(e.target.value)}>
SetPrompt ==
  /\ \E p \in Prompts \ {prompt} : prompt' = p
  /\ lastOp' = "input"
  /\ UNCHANGED <<model, aspectRatio, app, host, gens, selecting, attempts, done>>

\* <Select onChange={(e) => setModel(...)}>
SetModel ==
  /\ \E m \in ModelType \ {model} : model' = m
  /\ lastOp' = "input"
  /\ UNCHANGED <<prompt, aspectRatio, app, host, gens, selecting, attempts, done>>

\* <Select onChange={(e) => setAspectRatio(...)}>
SetAspectRatio ==
  /\ \E a \in AspectRatio \ {aspectRatio} : aspectRatio' = a
  /\ lastOp' = "input"
  /\ UNCHANGED <<prompt, model, app, host, gens, selecting, attempts, done>>

\* A click on the Generate button: handleGenerate up to its first await,
\* where hasSelectedApiKey() or the return of checkApiKey is pending
HandleGenerate ==
  /\ ~ButtonDisabled(FALSE, isLoading)
  /\ IF BlankPrompt(prompt)
     THEN UNCHANGED <<app, gens, attempts>>
     ELSE /\ attempts < MaxAttempts
          /\ attempts' = attempts + 1
          /\ Render(Begin(State))
          /\ gens' = gens \cup {[id |-> attempts + 1, prompt |-> prompt,
                                 model |-> model, pc |-> "checkApiKey",
                                 hadKey |-> FALSE]}
  /\ lastOp' = "handleGenerate"
  /\ UNCHANGED <<form, host, selecting, done>>

\* await this.checkApiKey(model) settles: it throws into handleGenerate's
\* catch and finally, or generateImage goes on to make the remote call
CheckApiKeySettled(g) ==
  /\ g.pc = "checkApiKey"
  /\ LET checked == checkApiKey(g.model, aistudio, hasKey)
         h == [g EXCEPT !.hadKey = hasKey]
     IN IF checked.threw
        THEN /\ gens' = gens \ {g}
             /\ Render(Finally(Catch(State, checked.message)))
             /\ done' = Settled(h, FALSE, FALSE, NoThrow, checked)
             /\ lastOp' = "handleGenerate:settled"
        ELSE /\ gens' = (gens \ {g}) \cup {[h EXCEPT !.pc = "generateContent"]}
             /\ lastOp' = "generateContent:called"
             /\ UNCHANGED <<app, done>>
  /\ UNCHANGED <<form, host, selecting, attempts>>

\* await ai.models.generateContent(...) settles; the rest of generateImage
\* and of handleGenerate runs
GenerateContentSettled(g, settled) ==
  /\ g.pc = "generateContent"
  /\ LET r == AfterCall(settled, g.model)
         newImage == [url |-> r.url[1], prompt |-> g.prompt, timestamp |-> g.id,
                      model |-> g.model]
     IN /\ IF r.thrown.threw
           THEN Render(Finally(Catch(State, r.thrown.message)))
           ELSE Render(Finally(Succeed(State, newImage)))
        /\ done' = Settled(g, TRUE, settled.ok, r.caught, r.thrown)
  /\ gens' = gens \ {g}
  /\ lastOp' = "handleGenerate:settled"
  /\ UNCHANGED <<form, host, selecting, attempts>>

Settlements ==
  {[ok |-> TRUE, response |-> r, message |-> Null] : r \in Responses}
  \cup {[ok |-> FALSE, response |-> [candidates |-> Null], message |-> m] :
          m \in ProviderMessages}

\* A click on "Select API Key", rendered only while keySelectionNeeded
KeySelectionStart ==
  /\ keySelectionNeeded
  /\ IF aistudio
     THEN /\ selecting < MaxPendingSelections
          /\ selecting' = selecting + 1
          /\ lastOp' = "handleKeySelection:open"
          /\ UNCHANGED app
     ELSE /\ Render(NoStudio(State))
          /\ lastOp' = "handleKeySelection:nostudio"
          /\ UNCHANGED selecting
  /\ UNCHANGED <<form, host, gens, attempts, done>>

\* await window.aistudio.openSelectKey() resolves
OpenSelectKeyResolved ==
  /\ selecting > 0
  /\ selecting' = selecting - 1
  /\ Render(KeySelected(State))
  /\ hasKey' \in {hasKey, TRUE}
  /\ lastOp' = "openSelectKey:resolved"
  /\ UNCHANGED <<form, aistudio, gens, attempts, done>>

\* await window.aistudio.openSelectKey() rejects
OpenSelectKeyRejected ==
  /\ selecting > 0
  /\ selecting' = selecting - 1
  /\ Render(KeyFailed(State))
  /\ lastOp' = "openSelectKey:rejected"
  /\ UNCHANGED <<form, host, gens, attempts, done>>

Next ==
  \/ SetPrompt
  \/ SetModel
  \/ SetAspectRatio
  \/ HandleGenerate
  \/ \E g \in gens : CheckApiKeySettled(g)
  \/ \E g \in gens : \E settled \in Settlements : GenerateContentSettled(g, settled)
  \/ KeySelectionStart
  \/ OpenSelectKeyResolved
  \/ OpenSelectKeyRejected

Spec == Init /\ [][Next]_vars

\* ------------------------------------------------------------ properties
InFlight == gens # {}

JustSettled == lastOp = "handleGenerate:settled"

HasSignature(message) ==
  message # Null /\ Includes(message[1], ENTITY_NOT_FOUND)

\* The outcome of a settled attempt, by what triggered it
Kind(d) ==
  IF ~d.thrown.threw THEN "Success"
  ELSE IF ~d.called THEN "CredentialRequired"
  ELSE IF d.model = PRO /\ HasSignature(d.caught.message) THEN "CredentialInvalid"
  ELSE IF d.ok /\ d.caught.message = Some(NO_IMAGE_DATA) THEN "NoImageProduced"
  ELSE "ProviderError"

\* C1: isLoading is true exactly while an attempt is pending and false once
\* its outcome is recorded; while it is true, nothing of the pending
\* attempt's outcome is set: no result of that attempt, no error from
\* handleGenerate's catch block, no keySelectionNeeded.
InFlightBracketing ==
  /\ isLoading <=> InFlight
  /\ JustSettled => ~isLoading
  /\ \A g \in gens :
       /\ ~keySelectionNeeded
       /\ error \in {Null, Some(KEY_SELECTION_FAILED)}
       /\ currentImage = Null \/ currentImage[1].timestamp # g.id
       /\ done.id # g.id

InFlightBracketingWitness ==
  /\ JustSettled
  /\ ~isLoading
  /\ done.thrown.threw
  /\ error # Null
  /\ attempts = 2

\* C2: at most one handleGenerate call is pending at any time; a new attempt
\* starts only when none is pending and isLoading is false.
AtMostOneInFlight ==
  /\ Cardinality(gens) <= 1
  /\ \A g \in gens : g.id = attempts

AtMostOneInFlightWitness ==
  /\ Cardinality(gens) = 1
  /\ attempts = 2
  /\ \E g \in gens : g.pc = "generateContent"

\* C3: the step that starts an attempt leaves error null and
\* keySelectionNeeded false, and while that attempt stays in flight
\* keySelectionNeeded stays false and error changes only to the message of a
\* credential selection that fails meanwhile.
ClearingAtStart ==
  [][ /\ attempts' # attempts =>
           isLoading' /\ error' = Null /\ ~keySelectionNeeded'
      /\ isLoading /\ isLoading' =>
           /\ ~keySelectionNeeded'
           /\ error' # error => error' = Some(KEY_SELECTION_FAILED) ]_vars

ClearingAtStartWitness ==
  /\ lastOp = "handleGenerate"
  /\ isLoading
  /\ attempts = 2
  /\ done.thrown.message = Some(<<"quota exceeded">>)
  /\ error = Null
  /\ ~keySelectionNeeded

\* C4 as claimed: with the PRO model and no credential selected, the remote
\* call is never made and the attempt ends with keySelectionNeeded set.
PrecheckShortCircuits ==
  /\ \A g \in gens : g.pc = "generateContent" /\ g.model = PRO => g.hadKey
  /\ JustSettled /\ done.model = PRO /\ ~done.hadKey =>
       /\ ~done.called
       /\ done.thrown = Throw(Some(API_KEY_REQUIRED))
       /\ keySelectionNeeded

\* C4 amended: with the PRO model, window.aistudio present and no credential
\* selected, the remote call is never made, generateImage throws
\* API_KEY_REQUIRED and the attempt ends with keySelectionNeeded set.
PrecheckShortCircuitsInStudio ==
  /\ \A g \in gens :
       g.pc = "generateContent" /\ g.model = PRO /\ aistudio => g.hadKey
  /\ JustSettled /\ done.model = PRO /\ ~done.hadKey /\ aistudio =>
       /\ ~done.called
       /\ done.thrown = Throw(Some(API_KEY_REQUIRED))
       /\ keySelectionNeeded
       /\ ~isLoading

PrecheckShortCircuitsWitness ==
  /\ JustSettled
  /\ done.model = PRO
  /\ aistudio
  /\ ~done.hadKey
  /\ ~done.called
  /\ keySelectionNeeded

\* C5: right after an attempt settles the state has the shape of its
\* outcome: on success the new image is stored, error is null and
\* keySelectionNeeded false; on CredentialRequired or CredentialInvalid
\* keySelectionNeeded is true and error null; on any other failure error is
\* the failure's message or the fallback and keySelectionNeeded is false.
TerminalExclusivity ==
  JustSettled =>
    CASE Kind(done) = "Success" ->
           /\ currentImage # Null
           /\ currentImage[1].timestamp = done.id
           /\ error = Null
           /\ ~keySelectionNeeded
      [] Kind(done) \in {"CredentialRequired", "CredentialInvalid"} ->
           /\ keySelectionNeeded
           /\ error = Null
      [] OTHER ->
           /\ error = Some(OrElse(done.thrown.message, UNEXPECTED_ERROR))
           /\ ~keySelectionNeeded

\* C6: what generateImage's catch block caught is rethrown as
\* API_KEY_INVALID when its message contains the signature and the model is
\* PRO, and is rethrown with its own message in every other case.
EntityNotFoundReclassified ==
  JustSettled /\ done.called /\ done.caught.threw =>
    /\ done.thrown.threw
    /\ IF HasSignature(done.caught.message) /\ done.model = PRO
       THEN done.thrown.message = Some(API_KEY_INVALID) /\ keySelectionNeeded
       ELSE /\ done.thrown.message = done.caught.message
            /\ error = Some(OrElse(done.caught.message, UNEXPECTED_ERROR))

EntityNotFoundReclassifiedWitness ==
  /\ JustSettled
  /\ done.model = FLASH
  /\ ~done.ok
  /\ done.caught.message = Some(<<"404:">> \o ENTITY_NOT_FOUND)
  /\ error = Some(<<"404:">> \o ENTITY_NOT_FOUND)
  /\ ~keySelectionNeeded

\* C7: the step in which openSelectKey resolves leaves keySelectionNeeded
\* false and changes neither isLoading nor the pending attempts nor the
\* number of attempts started.
NoAutoRetry ==
  [][ lastOp' = "openSelectKey:resolved" =>
        /\ ~keySelectionNeeded'
        /\ isLoading' = isLoading
        /\ gens' = gens
        /\ attempts' = attempts
        /\ done' = done ]_vars

NoAutoRetryWitness ==
  /\ lastOp = "openSelectKey:resolved"
  /\ ~keySelectionNeeded
  /\ ~isLoading
  /\ gens = {}
  /\ attempts = 1

\* C8: a step in which an attempt fails leaves currentImage as it is, and
\* currentImage changes only in a step in which an attempt succeeds, to that
\* attempt's image.
FailuresKeepResult ==
  [][ /\ lastOp' = "handleGenerate:settled" /\ done'.thrown.threw =>
           currentImage' = currentImage
      /\ currentImage' # currentImage =>
           /\ lastOp' = "handleGenerate:settled"
           /\ ~done'.thrown.threw
           /\ currentImage' # Null
           /\ currentImage'[1].timestamp = done'.id
           /\ currentImage'[1].model = done'.model ]_vars

FailuresKeepResultWitness ==
  /\ JustSettled
  /\ done.thrown.threw
  /\ done.id = 2
  /\ currentImage # Null
  /\ currentImage[1].timestamp = 1

\* C9: a click on Generate while the trimmed prompt is empty changes no field
\* of the App state, starts no attempt and makes no call.
EmptyPromptNoOp ==
  [][ lastOp' = "handleGenerate" /\ Trim(prompt) = <<>> =>
        UNCHANGED <<form, app, gens, attempts, host, selecting, done>> ]_vars

EmptyPromptNoOpWitness ==
  /\ lastOp = "handleGenerate"
  /\ prompt = <<SP, SP>>
  /\ currentImage # Null
  /\ ~isLoading

\* C10 as claimed: the step in which openSelectKey rejects leaves
\* keySelectionNeeded true, sets error to the fixed message and changes
\* neither isLoading nor currentImage.
FailedSelectionStaysRequired ==
  [][ lastOp' = "openSelectKey:rejected" =>
        /\ keySelectionNeeded'
        /\ error' = Some(KEY_SELECTION_FAILED)
        /\ isLoading' = isLoading
        /\ currentImage' = currentImage ]_vars

\* C10 amended: the step in which openSelectKey rejects leaves
\* keySelectionNeeded as it is at that moment, sets error to the fixed
\* message and changes neither isLoading nor currentImage.
FailedSelectionKeepsFlag ==
  [][ lastOp' = "openSelectKey:rejected" =>
        /\ keySelectionNeeded' = keySelectionNeeded
        /\ error' = Some(KEY_SELECTION_FAILED)
        /\ isLoading' = isLoading
        /\ currentImage' = currentImage ]_vars

FailedSelectionWitness ==
  /\ lastOp = "openSelectKey:rejected"
  /\ keySelectionNeeded
  /\ error = Some(KEY_SELECTION_FAILED)
  /\ ~isLoading

====
